---- MODULE Spec2Model ----
(***************************************************************************)
(* Model of package draw (src/draw/draw.go): the edge-matrix builders, the *)
(* curve tessellators, the octant line rasterizer and plot.                *)
(*                                                                         *)
(* A float64 coordinate is modelled in fixed point: the integer v stands   *)
(* for the value v / Scale.  All the arithmetic DrawLine does on           *)
(* coordinates is linear, so it is exact in this representation.           *)
(***************************************************************************)
EXTENDS Integers, Sequences, FiniteSets, TLC

VARIABLES pc, op, ret, edges, screen, heap, DefaultDrawColor, plotted, drawn,
          coefGenerator, panic, shadow, calls

vars == <<pc, op, ret, edges, screen, heap, DefaultDrawColor, plotted, drawn,
          coefGenerator, panic, shadow, calls>>

(* Fixed-point resolution of a float64: 1.0 is Scale units. *)
Scale == 100

(* ---- bounds of the model ---- *)
(* display.XRES and display.YRES: the framebuffer has YRES rows of XRES    *)
(* cells.  The model checks a small framebuffer.                           *)
XRES == 3
YRES == 2
MaxRound == 3      \* float64ToInt is applied to -MaxRound.00 .. MaxRound.00
MaxCoord == 5      \* integer line coordinates range over -1 .. MaxCoord
MaxFrac == 1       \* fractional line coordinates k.4, k.5, k.6 for k in 0 .. MaxFrac
MaxCalls == 2      \* builder calls on one edge matrix
MaxOps == 3        \* operations on one framebuffer
MaxChan == 1       \* color channel values range over 0 .. MaxChan

Abs(n) == IF n < 0 THEN -n ELSE n
Max(a, b) == IF a >= b THEN a ELSE b
Min(a, b) == IF a <= b THEN a ELSE b

(* Go's int(f): conversion of a float64 to int truncates toward zero. *)
GoInt(f) == IF f >= 0 THEN f \div Scale ELSE -((-f) \div Scale)

(* float64ToInt: f - float64(int(f)) < 0.5 ? int(f) : int(f + 1) *)
float64ToInt(f) ==
    IF 2 * (f - GoInt(f) * Scale) < Scale THEN GoInt(f) ELSE GoInt(f + Scale)

(* The integer nearest to f, exact halves rounded up. *)
RoundHalfUp(f) == (2 * f + Scale) \div (2 * Scale)

(* ---- framebuffer ---- *)
Rows == 0 .. (YRES - 1)
Cols == 0 .. (XRES - 1)

(* The bounds test of plot. *)
plotGuardLoose(newX, newY) ==
    newX >= 0 /\ newX <= XRES /\ newY >= 0 /\ newY < YRES

plotGuard(newX, newY) ==
    newX >= 0 /\ newX < XRES /\ newY >= 0 /\ newY < YRES

(* The cell plot aims at: <<newX, newY>>, with the y axis flipped. *)
plotTarget(x, y) == <<float64ToInt(x), YRES - float64ToInt(y) - 1>>

(* Whether screen[newY][newX] is an index in range. *)
InRange(scr, t) == t[2] \in DOMAIN scr /\ t[1] \in DOMAIN scr[t[2]]

(* plot on a framebuffer state s = [screen, panic]: the cell is made to    *)
(* share DefaultDrawColor's backing array (DefaultDrawColor[:] is a slice  *)
(* of the same array, not a copy); an index outside the framebuffer is a   *)
(* run-time panic.                                                         *)
plot(s, color, x, y) ==
    LET t == plotTarget(x, y)
    IN  IF s.panic \/ ~plotGuard(t[1], t[2]) THEN s
        ELSE IF InRange(s.screen, t)
             THEN [s EXCEPT !.screen[t[2]][t[1]] = color]
             ELSE [s EXCEPT !.panic = TRUE]

(* plot applied to the points of pts in order.  Every plot of one call     *)
(* writes the same slice, so the framebuffer after the sequence has the    *)
(* cell of every point plotted before the first panic set to color.        *)
plotAll(s, color, pts) ==
    LET n == Len(pts)
        bad(i) == LET t == plotTarget(pts[i][1], pts[i][2])
                  IN  plotGuard(t[1], t[2]) /\ ~InRange(s.screen, t)
        stop == IF \E i \in 1 .. n : bad(i)
                THEN CHOOSE i \in 1 .. n : bad(i) /\ \A j \in 1 .. (i - 1) : ~bad(j)
                ELSE n + 1
        written == {t \in {plotTarget(pts[i][1], pts[i][2]) : i \in 1 .. (stop - 1)} :
                       plotGuard(t[1], t[2])}
    IN  IF s.panic THEN s
        ELSE [screen |-> [r \in DOMAIN s.screen |-> [c \in DOMAIN s.screen[r] |->
                            IF <<c, r>> \in written THEN color ELSE s.screen[r][c]]],
              panic |-> stop <= n]

(* ---- DrawLine ---- *)
(* Each loop returns the sequence of (x, y) passed to plot, in order. *)
RECURSIVE VerticalLoopStrict(_, _, _, _)
VerticalLoopStrict(x, y, y1, acc) ==
    IF y < y1 THEN VerticalLoopStrict(x, y + Scale, y1, Append(acc, <<x, y>>))
    ELSE acc

RECURSIVE VerticalLoop(_, _, _, _)
VerticalLoop(x, y, y1, acc) ==
    IF y <= y1 THEN VerticalLoop(x, y + Scale, y1, Append(acc, <<x, y>>))
    ELSE acc

RECURSIVE Octant1Loop(_, _, _, _, _, _, _, _)
Octant1Loop(x, y, d, x1, y1, A, B, acc) ==
    IF x <= x1 /\ y <= y1
    THEN LET up == d > 0
         IN  Octant1Loop(x + Scale,
                         IF up THEN y + Scale ELSE y,
                         (IF up THEN d + 2 * B ELSE d) + 2 * A,
                         x1, y1, A, B, Append(acc, <<x, y>>))
    ELSE acc

RECURSIVE Octant2Loop(_, _, _, _, _, _, _, _)
Octant2Loop(x, y, d, x1, y1, A, B, acc) ==
    IF x <= x1 /\ y <= y1
    THEN LET right == d < 0
         IN  Octant2Loop(IF right THEN x + Scale ELSE x,
                         y + Scale,
                         (IF right THEN d + 2 * A ELSE d) + 2 * B,
                         x1, y1, A, B, Append(acc, <<x, y>>))
    ELSE acc

RECURSIVE Octant8Loop(_, _, _, _, _, _, _, _)
Octant8Loop(x, y, d, x1, y1, A, B, acc) ==
    IF x <= x1 /\ y >= y1
    THEN LET down == d < 0
         IN  Octant8Loop(x + Scale,
                         IF down THEN y - Scale ELSE y,
                         (IF down THEN d - 2 * B ELSE d) + 2 * A,
                         x1, y1, A, B, Append(acc, <<x, y>>))
    ELSE acc

RECURSIVE Octant7LoopWrongSign(_, _, _, _, _, _, _, _)
Octant7LoopWrongSign(x, y, d, x1, y1, A, B, acc) ==
    IF x <= x1 /\ y >= y1
    THEN LET right == d < 0
         IN  Octant7LoopWrongSign(IF right THEN x + Scale ELSE x,
                                  y - Scale,
                                  (IF right THEN d + 2 * A ELSE d) - 2 * B,
                                  x1, y1, A, B, Append(acc, <<x, y>>))
    ELSE acc

RECURSIVE Octant7Loop(_, _, _, _, _, _, _, _)
Octant7Loop(x, y, d, x1, y1, A, B, acc) ==
    IF x <= x1 /\ y >= y1
    THEN LET right == d > 0
         IN  Octant7Loop(IF right THEN x + Scale ELSE x,
                         y - Scale,
                         (IF right THEN d + 2 * A ELSE d) - 2 * B,
                         x1, y1, A, B, Append(acc, <<x, y>>))
    ELSE acc

(* The branches after the vertical case; x0 < x1 here, so -B > 0 and the  *)
(* tests on slope = A / (-B) are tests on A and B.                         *)
DrawLineOctants(x0, y0, x1, y1) ==
    LET A == y1 - y0
        B == x0 - x1
    IN  IF A >= 0 /\ A <= -B
        THEN Octant1Loop(x0, y0, 2 * A + B, x1, y1, A, B, <<>>)
        ELSE IF A > -B
        THEN Octant2Loop(x0, y0, A + 2 * B, x1, y1, A, B, <<>>)
        ELSE IF A < 0 /\ A >= B
        THEN Octant8Loop(x0, y0, 2 * A - B, x1, y1, A, B, <<>>)
        ELSE Octant7Loop(x0, y0, A - 2 * B, x1, y1, A, B, <<>>)

(* DrawLine with the endpoints already ordered by x. *)
DrawLineOrdered(x0, y0, x1, y1) ==
    IF x0 - x1 = 0
    THEN VerticalLoop(x0, Min(y0, y1), Max(y0, y1), <<>>)
    ELSE DrawLineOctants(x0, y0, x1, y1)

(* DrawLine: the sequence of points it passes to plot. *)
DrawLine(x0, y0, x1, y1) ==
    IF x1 < x0 THEN DrawLineOrdered(x1, y1, x0, y0)
    ELSE DrawLineOrdered(x0, y0, x1, y1)

(* ---- edge matrix ---- *)
(* A 4-row matrix: edges[1..4] are the rows x, y, z, w (Go rows 0..3). *)
NewMatrix == <<<<>>, <<>>, <<>>, <<>>>>

AddPointNoW(m, x, y, z) ==
    <<Append(m[1], x), Append(m[2], y), Append(m[3], z), Append(m[4], 0)>>

(* AddPoint: one append to each of the four rows; w is 1. *)
AddPoint(m, x, y, z) ==
    <<Append(m[1], x), Append(m[2], y), Append(m[3], z), Append(m[4], Scale)>>

AddEdge(m, x0, y0, z0, x1, y1, z1) ==
    AddPoint(AddPoint(m, x0, y0, z0), x1, y1, z1)

(* math.Cos(2*Pi*t) and math.Sin(2*Pi*t) at t = 0, 0.01, ..., 0.99, in     *)
(* units of 1 / (Scale * Scale).                                           *)
CosTable ==
    <<
        10000,   9980,   9921,   9823,   9686,   9511,   9298,   9048,   8763,   8443,
         8090,   7705,   7290,   6845,   6374,   5878,   5358,   4818,   4258,   3681,
         3090,   2487,   1874,   1253,    628,      0,   -628,  -1253,  -1874,  -2487,
        -3090,  -3681,  -4258,  -4818,  -5358,  -5878,  -6374,  -6845,  -7290,  -7705,
        -8090,  -8443,  -8763,  -9048,  -9298,  -9511,  -9686,  -9823,  -9921,  -9980,
       -10000,  -9980,  -9921,  -9823,  -9686,  -9511,  -9298,  -9048,  -8763,  -8443,
        -8090,  -7705,  -7290,  -6845,  -6374,  -5878,  -5358,  -4818,  -4258,  -3681,
        -3090,  -2487,  -1874,  -1253,   -628,      0,    628,   1253,   1874,   2487,
         3090,   3681,   4258,   4818,   5358,   5878,   6374,   6845,   7290,   7705,
         8090,   8443,   8763,   9048,   9298,   9511,   9686,   9823,   9921,   9980 >>

SinTable ==
    <<
            0,    628,   1253,   1874,   2487,   3090,   3681,   4258,   4818,   5358,
         5878,   6374,   6845,   7290,   7705,   8090,   8443,   8763,   9048,   9298,
         9511,   9686,   9823,   9921,   9980,  10000,   9980,   9921,   9823,   9686,
         9511,   9298,   9048,   8763,   8443,   8090,   7705,   7290,   6845,   6374,
         5878,   5358,   4818,   4258,   3681,   3090,   2487,   1874,   1253,    628,
            0,   -628,  -1253,  -1874,  -2487,  -3090,  -3681,  -4258,  -4818,  -5358,
        -5878,  -6374,  -6845,  -7290,  -7705,  -8090,  -8443,  -8763,  -9048,  -9298,
        -9511,  -9686,  -9823,  -9921,  -9980, -10000,  -9980,  -9921,  -9823,  -9686,
        -9511,  -9298,  -9048,  -8763,  -8443,  -8090,  -7705,  -7290,  -6845,  -6374,
        -5878,  -5358,  -4818,  -4258,  -3681,  -3090,  -2487,  -1874,  -1253,   -628 >>

(* A product of two fixed-point values, rounded to the fixed-point grid. *)
Quantize(n, unit) == (2 * n + unit) \div (2 * unit)

(* The number of iterations of  for t := 0.0; t < 1.0; t += step. *)
LoopCount(step) == (Scale + step - 1) \div step

(* AddPoint applied to the points of pts in order: the k-th call appends   *)
(* to each row what AddPoint appends for pts[k].                           *)
AddPoints(m, pts) ==
    [row \in 1 .. 4 |->
        m[row] \o [k \in 1 .. Len(pts) |->
                     AddPoint(NewMatrix, pts[k][1], pts[k][2], pts[k][3])[row][1]]]

(* The body of AddCircle's loop at its k-th iteration, t = (k - 1) * 0.01. *)
CirclePoint(cx, cy, r, k) ==
    <<Quantize(r * CosTable[k], Scale * Scale) + cx,
      Quantize(r * SinTable[k], Scale * Scale) + cy,
      0>>

AddCircle(m, cx, cy, cz, r) ==
    AddPoints(m, [k \in 1 .. LoopCount(Scale \div 100) |-> CirclePoint(cx, cy, r, k)])

(* matrix.MakeHermite and matrix.MakeBezier: the basis matrices, laid out  *)
(* so that a row vector of control values times the matrix is the row of   *)
(* coefficients, highest degree first.                                     *)
MakeHermite ==
    << <<2, -3, 0, 1>>, <<-2, 3, 0, 0>>, <<1, -2, 1, 0>>, <<1, -1, 0, 0>> >>

MakeBezier ==
    << <<-1, 3, -3, 1>>, <<3, -6, 3, 0>>, <<-3, 3, 0, 0>>, <<1, 0, 0, 0>> >>

(* matrix.MultiplyMatrices(&coords, &coefs) for a 1x4 coords: coefs        *)
(* becomes the 1x4 product coords * coefs.                                 *)
MultiplyMatrices(coords, coefs) ==
    << [j \in 1 .. 4 |->
          coords[1] * coefs[1][j] + coords[2] * coefs[2][j]
        + coords[3] * coefs[3][j] + coords[4] * coefs[4][j]] >>

(* CubicEval(t, coefs): coefs[0][0]*t^3 + coefs[0][1]*t^2 + coefs[0][2]*t  *)
(* + coefs[0][3], with t and the result in fixed point.                    *)
CubicEval(t, coefs) ==
    Quantize(  coefs[1][1] * t * t * t
             + coefs[1][2] * t * t * Scale
             + coefs[1][3] * t * Scale * Scale
             + coefs[1][4] * Scale * Scale * Scale,
             Scale * Scale * Scale)

(* coefGenerator holds the name of the matrix constructor whose result it  *)
(* was assigned; NilMatrix is the nil [][]float64 it holds before the      *)
(* switch.                                                                 *)
NilMatrix == ""

BasisMatrix(maker) == IF maker = "MakeHermite" THEN MakeHermite ELSE MakeBezier

coefGeneratorForDefaultBezier(curveType) ==
    IF curveType = "hermite" THEN "MakeBezier"
    ELSE IF curveType = "bezier" THEN "MakeHermite"
    ELSE "MakeBezier"

(* The switch of AddCurve: the constructor coefGenerator is assigned from; *)
(* NilMatrix stands for the default branch, which returns.                 *)
coefGeneratorFor(curveType) ==
    IF curveType = "hermite" THEN "MakeBezier"
    ELSE IF curveType = "bezier" THEN "MakeHermite"
    ELSE NilMatrix

(* AddCurve; p is <<x0, y0, x1, y1, x2, y2, x3, y3>>. *)
AddCurve(m, p, step, curveType) ==
    LET gen == coefGeneratorFor(curveType)
    IN  IF gen = NilMatrix THEN m
        ELSE LET xCoefs == MultiplyMatrices(<<p[1], p[3], p[5], p[7]>>, BasisMatrix(gen))
                 yCoefs == MultiplyMatrices(<<p[2], p[4], p[6], p[8]>>, BasisMatrix(gen))
             IN  AddPoints(m, [k \in 1 .. LoopCount(step) |->
                     <<CubicEval((k - 1) * step, xCoefs),
                       CubicEval((k - 1) * step, yCoefs), 0>>])

(* matrix.ExtractColumn(edges, i), i counted from 0. *)
ExtractColumn(m, i) == <<m[1][i + 1], m[2][i + 1], m[3][i + 1], m[4][i + 1]>>

(* The arguments of the DrawLine call of DrawLines' iteration i. *)
DrawLinesBody(m, i) ==
    LET point == ExtractColumn(m, i)
        nextPoint == ExtractColumn(m, i + 1)
    IN  <<point[1], point[2], nextPoint[1], nextPoint[2]>>

RECURSIVE DrawLinesLoopStride2(_, _, _)
DrawLinesLoopStride2(m, lo, hi) ==
    IF lo >= hi THEN <<>>
    ELSE IF hi - lo <= 2 THEN <<DrawLinesBody(m, lo)>>
    ELSE LET mid == lo + 2 * ((hi - lo) \div 4 + 1)
         IN  DrawLinesLoopStride2(m, lo, Min(mid, hi)) \o DrawLinesLoopStride2(m, mid, hi)

DrawLinesStride2(m) == DrawLinesLoopStride2(m, 0, Len(m[1]) - 1)

(* The iterations lo <= i < hi of DrawLines' loop (the range is split in   *)
(* halves): the DrawLine calls made, in order, each as <<x0, y0, x1, y1>>. *)
RECURSIVE DrawLinesLoop(_, _, _)
DrawLinesLoop(m, lo, hi) ==
    IF lo >= hi THEN <<>>
    ELSE IF hi - lo = 1 THEN <<DrawLinesBody(m, lo)>>
    ELSE LET mid == lo + (hi - lo) \div 2
         IN  DrawLinesLoop(m, lo, mid) \o DrawLinesLoop(m, mid, hi)

(* DrawLines: for i := 0; i < len(edges[0]) - 1; i++ *)
DrawLines(m) == DrawLinesLoop(m, 0, Len(m[1]) - 1)

(* The points a sequence of DrawLine calls passes to plot, in order. *)
RECURSIVE plotsOf(_)
plotsOf(lines) ==
    IF lines = <<>> THEN <<>>
    ELSE IF Len(lines) = 1
    THEN DrawLine(lines[1][1], lines[1][2], lines[1][3], lines[1][4])
    ELSE LET h == Len(lines) \div 2
         IN  plotsOf(SubSeq(lines, 1, h)) \o plotsOf(SubSeq(lines, h + 1, Len(lines)))

(* ---- state ---- *)
(* A []int is a reference to a backing array: heap maps array ids to the   *)
(* array's contents, and a slice value is the id of its array.             *)
(* display.NewScreen: every cell has a backing array of its own.           *)
NewScreen == [r \in Rows |-> [c \in Cols |-> 1 + r * XRES + c]]

NewHeap == [i \in 0 .. (XRES * YRES) |-> <<0, 0, 0>>]

(* shadow records, for every cell, the color value that was current when   *)
(* the cell was last plotted (<<>> when never plotted), kept up to date by *)
(* direct writes to that cell, and the value the configuration gave        *)
(* DefaultDrawColor.                                                       *)
NewShadow == [cells |-> [r \in Rows |-> [c \in Cols |-> <<>>]], color |-> <<0, 0, 0>>]

NoCall == [name |-> "", args |-> <<>>, kind |-> ""]

Call(name, args) == [name |-> name, args |-> args, kind |-> ""]

InitState ==
    /\ ret = 0
    /\ edges = NewMatrix
    /\ screen = NewScreen
    /\ heap = NewHeap
    /\ DefaultDrawColor = 0
    /\ plotted = <<>>
    /\ drawn = <<>>
    /\ coefGenerator = NilMatrix
    /\ panic = FALSE
    /\ shadow = NewShadow
    /\ calls = <<>>

(* The cells a sequence of plot calls lands on. *)
CellsOf(pts) ==
    LET targets == {plotTarget(pts[i][1], pts[i][2]) : i \in 1 .. Len(pts)}
    IN  {cell \in Rows \X Cols : <<cell[2], cell[1]>> \in targets}

(* The effect on the framebuffer of passing pts to plot, in order. *)
Draw(pts) ==
    LET s == plotAll([screen |-> screen, panic |-> panic], DefaultDrawColor, pts)
        cells == CellsOf(pts)
    IN  /\ screen' = s.screen
        /\ panic' = s.panic
        /\ plotted' = pts
        /\ shadow' = [shadow EXCEPT !.cells =
                         [r \in Rows |-> [c \in Cols |->
                             IF <<r, c>> \in cells
                             THEN heap[DefaultDrawColor] ELSE shadow.cells[r][c]]]]

(* ---- Spec: builder calls on one edge matrix, and DrawLines ---- *)
Points == {<<0, 0, 0>>, <<(5 * Scale) \div 2, (3 * Scale) \div 2, Scale>>}

Circles == {<<Scale, Scale, Scale, Scale>>}

ControlPoints ==
    {<<0, 0, Scale, 2 * Scale, 2 * Scale, 2 * Scale, 3 * Scale, 0>>,
     <<Scale, 0, 0, Scale, Scale \div 2, -Scale, 2 * Scale, Scale>>}

Steps == {Scale \div 2, Scale \div 4}

CurveTypes == {"hermite", "bezier", "spline"}

Init == InitState /\ pc = "idle" /\ op = NoCall

AddPointCall ==
    \E p \in Points :
        /\ Len(calls) < MaxCalls
        /\ edges' = AddPoint(edges, p[1], p[2], p[3])
        /\ op' = Call("AddPoint", p)
        /\ calls' = Append(calls, "AddPoint")
        /\ UNCHANGED <<pc, ret, screen, heap, DefaultDrawColor, plotted, drawn,
                       coefGenerator, panic, shadow>>

AddEdgeCall ==
    \E p \in Points, q \in Points :
        /\ Len(calls) < MaxCalls
        /\ edges' = AddEdge(edges, p[1], p[2], p[3], q[1], q[2], q[3])
        /\ op' = Call("AddEdge", p \o q)
        /\ calls' = Append(calls, "AddEdge")
        /\ UNCHANGED <<pc, ret, screen, heap, DefaultDrawColor, plotted, drawn,
                       coefGenerator, panic, shadow>>

AddCircleCall ==
    \E c \in Circles :
        /\ Len(calls) < MaxCalls
        /\ edges' = AddCircle(edges, c[1], c[2], c[3], c[4])
        /\ op' = Call("AddCircle", c)
        /\ calls' = Append(calls, "AddCircle")
        /\ UNCHANGED <<pc, ret, screen, heap, DefaultDrawColor, plotted, drawn,
                       coefGenerator, panic, shadow>>

AddCurveCall ==
    \E p \in ControlPoints, step \in Steps, curveType \in CurveTypes :
        /\ Len(calls) < MaxCalls
        /\ edges' = AddCurve(edges, p, step, curveType)
        /\ coefGenerator' = coefGeneratorFor(curveType)
        /\ op' = [name |-> "AddCurve", args |-> Append(p, step), kind |-> curveType]
        /\ calls' = Append(calls, "AddCurve")
        /\ UNCHANGED <<pc, ret, screen, heap, DefaultDrawColor, plotted, drawn,
                       panic, shadow>>

DrawLinesCall ==
    /\ drawn' = DrawLines(edges)
    /\ Draw(plotsOf(DrawLines(edges)))
    /\ op' = Call("DrawLines", <<>>)
    /\ UNCHANGED <<pc, ret, edges, heap, DefaultDrawColor, coefGenerator, calls>>

Next == AddPointCall \/ AddEdgeCall \/ AddCircleCall \/ AddCurveCall \/ DrawLinesCall

Spec == Init /\ [][Next]_vars

(* ---- SpecRound: float64ToInt applied to one value ---- *)
RoundInputs == (-(MaxRound * Scale)) .. (MaxRound * Scale)

InitRound ==
    /\ InitState
    /\ pc = "call"
    /\ op \in {Call("float64ToInt", <<f>>) : f \in RoundInputs}

Float64ToIntCall ==
    /\ pc = "call"
    /\ op.name = "float64ToInt"
    /\ ret' = float64ToInt(op.args[1])
    /\ pc' = "done"
    /\ UNCHANGED <<op, edges, screen, heap, DefaultDrawColor, plotted, drawn,
                   coefGenerator, panic, shadow, calls>>

NextRound == Float64ToIntCall

SpecRound == InitRound /\ [][NextRound]_vars

(* ---- SpecLine: one plot or one DrawLine on a new framebuffer ---- *)
Fractions == {(2 * Scale) \div 5, Scale \div 2, (3 * Scale) \div 5}

LineCoords ==
    {k * Scale : k \in (-1) .. MaxCoord}
        \cup {k * Scale + f : k \in 0 .. MaxFrac, f \in Fractions}

PlotCoords == LineCoords \cup {-f : f \in Fractions} \cup {XRES * Scale, YRES * Scale}

InitLine ==
    /\ InitState
    /\ pc = "call"
    /\ op \in {Call("plot", <<x, y>>) : x \in PlotCoords, y \in PlotCoords}
         \cup {Call("DrawLine", <<x0, y0, x1, y1>>) :
                  x0 \in LineCoords, y0 \in LineCoords,
                  x1 \in LineCoords, y1 \in LineCoords}

PlotCall ==
    /\ pc = "call"
    /\ op.name = "plot"
    /\ Draw(<<op.args>>)
    /\ pc' = "done"
    /\ UNCHANGED <<op, ret, edges, heap, DefaultDrawColor, drawn, coefGenerator, calls>>

DrawLineCall ==
    /\ pc = "call"
    /\ op.name = "DrawLine"
    /\ Draw(DrawLine(op.args[1], op.args[2], op.args[3], op.args[4]))
    /\ pc' = "done"
    /\ UNCHANGED <<op, ret, edges, heap, DefaultDrawColor, drawn, coefGenerator, calls>>

NextLine == PlotCall \/ DrawLineCall

SpecLine == InitLine /\ [][NextLine]_vars

(* ---- SpecScreen: drawing, color changes and cell writes on one framebuffer ---- *)
Channels == 1 .. 3

ChanValues == 0 .. MaxChan

Colors == [Channels -> ChanValues]

PixelCoords == {<<c * Scale, r * Scale>> : c \in Cols, r \in Rows}

Segments == {<<0, 0, (XRES - 1) * Scale, 0>>, <<0, 0, 0, (YRES - 1) * Scale>>}

(* The id of a newly allocated backing array. *)
NewArray == CHOOSE i \in 0 .. (XRES * YRES + MaxOps) : i \notin DOMAIN heap

InitScreen == InitState /\ pc = "idle" /\ op = NoCall

PlotOp ==
    \E p \in PixelCoords :
        /\ Len(calls) < MaxOps
        /\ Draw(<<p>>)
        /\ op' = Call("plot", p)
        /\ calls' = Append(calls, "plot")
        /\ UNCHANGED <<pc, ret, edges, heap, DefaultDrawColor, drawn, coefGenerator>>

DrawLineOp ==
    \E l \in Segments :
        /\ Len(calls) < MaxOps
        /\ Draw(DrawLine(l[1], l[2], l[3], l[4]))
        /\ op' = Call("DrawLine", l)
        /\ calls' = Append(calls, "DrawLine")
        /\ UNCHANGED <<pc, ret, edges, heap, DefaultDrawColor, drawn, coefGenerator>>

(* draw.DefaultDrawColor = []int{r, g, b}: a new slice with a new array. *)
SetDefaultDrawColor ==
    \E color \in Colors :
        /\ Len(calls) < MaxOps
        /\ DefaultDrawColor' = NewArray
        /\ heap' = [i \in DOMAIN heap \cup {NewArray} |->
                       IF i = NewArray THEN <<color[1], color[2], color[3]>> ELSE heap[i]]
        /\ shadow' = [shadow EXCEPT !.color = <<color[1], color[2], color[3]>>]
        /\ op' = Call("SetDefaultDrawColor", <<color[1], color[2], color[3]>>)
        /\ calls' = Append(calls, "SetDefaultDrawColor")
        /\ UNCHANGED <<pc, ret, edges, screen, plotted, drawn, coefGenerator, panic>>

(* draw.DefaultDrawColor[ch] = v: an update in place. *)
SetDefaultDrawColorChannel ==
    \E ch \in Channels, v \in ChanValues :
        /\ Len(calls) < MaxOps
        /\ heap' = [heap EXCEPT ![DefaultDrawColor][ch] = v]
        /\ shadow' = [shadow EXCEPT !.color[ch] = v]
        /\ op' = Call("SetDefaultDrawColorChannel", <<ch, v>>)
        /\ calls' = Append(calls, "SetDefaultDrawColorChannel")
        /\ UNCHANGED <<pc, ret, edges, screen, DefaultDrawColor, plotted, drawn,
                       coefGenerator, panic>>

(* screen[r][c][ch] = v: a direct write to one channel of one cell. *)
SetCellChannel ==
    \E r \in Rows, c \in Cols, ch \in Channels, v \in ChanValues :
        /\ Len(calls) < MaxOps
        /\ heap' = [heap EXCEPT ![screen[r][c]][ch] = v]
        /\ shadow' = IF shadow.cells[r][c] = <<>> THEN shadow
                     ELSE [shadow EXCEPT !.cells[r][c][ch] = v]
        /\ op' = Call("SetCellChannel", <<r, c, ch, v>>)
        /\ calls' = Append(calls, "SetCellChannel")
        /\ UNCHANGED <<pc, ret, edges, screen, DefaultDrawColor, plotted, drawn,
                       coefGenerator, panic>>

NextScreen ==
    PlotOp \/ DrawLineOp \/ SetDefaultDrawColor \/ SetDefaultDrawColorChannel
        \/ SetCellChannel

SpecScreen == InitScreen /\ [][NextScreen]_vars

(* ---- properties ---- *)
Range(q) == {q[i] : i \in 1 .. Len(q)}

IsInteger(v) == v % Scale = 0

DrawLineDone == pc = "done" /\ op.name = "DrawLine"

(* The integer lattice points of the bounding box of a segment. *)
LatticeBox(a) ==
    {<<x, y>> \in LineCoords \X LineCoords :
        /\ IsInteger(x) /\ IsInteger(y)
        /\ Min(a[1], a[3]) <= x /\ x <= Max(a[1], a[3])
        /\ Min(a[2], a[4]) <= y /\ y <= Max(a[2], a[4])}

(* C1: for an axis-aligned segment with integer endpoints, in either       *)
(* order, DrawLine passes to plot each lattice point of the segment        *)
(* exactly once and no other point: |x1-x0| + |y1-y0| + 1 plots.           *)
C1_AxisAlignedExact ==
    (/\ DrawLineDone
     /\ \A i \in 1 .. 4 : IsInteger(op.args[i])
     /\ (op.args[1] = op.args[3] \/ op.args[2] = op.args[4]))
    => /\ Range(plotted) = LatticeBox(op.args)
       /\ Len(plotted) = Cardinality(Range(plotted))
       /\ Len(plotted) * Scale
            = Abs(op.args[3] - op.args[1]) + Abs(op.args[4] - op.args[2]) + Scale

C1_Witness ==
    /\ DrawLineDone
    /\ op.args = <<0, 0, 5 * Scale, 0>>
    /\ plotted = [k \in 1 .. 6 |-> <<(k - 1) * Scale, 0>>]

(* C2: for a non-vertical segment with integer endpoints the plotted       *)
(* sequence runs from one endpoint to the other, has one point for every   *)
(* integer value of the major-axis coordinate (max(|dx|, |dy|) + 1         *)
(* points), consecutive points differ by at most 1 in each axis, and       *)
(* every point is within half a pixel of the ideal line along the minor    *)
(* axis.                                                                   *)
C2_OctantsTrackLine ==
    (/\ DrawLineDone
     /\ \A i \in 1 .. 4 : IsInteger(op.args[i])
     /\ op.args[1] # op.args[3])
    => LET dx == op.args[3] - op.args[1]
           dy == op.args[4] - op.args[2]
           n == Len(plotted)
           ends == {<<op.args[1], op.args[2]>>, <<op.args[3], op.args[4]>>}
           xMajor == Abs(dy) <= Abs(dx)
       IN  /\ n * Scale = Max(Abs(dx), Abs(dy)) + Scale
           /\ {plotted[1], plotted[n]} = ends
           /\ \A i \in 1 .. (n - 1) :
                 /\ Abs(plotted[i + 1][1] - plotted[i][1]) <= Scale
                 /\ Abs(plotted[i + 1][2] - plotted[i][2]) <= Scale
                 /\ IF xMajor
                    THEN Abs(plotted[i + 1][1] - plotted[i][1]) = Scale
                    ELSE Abs(plotted[i + 1][2] - plotted[i][2]) = Scale
           /\ \A i \in 1 .. n :
                 LET ex == plotted[i][1] - op.args[1]
                     ey == plotted[i][2] - op.args[2]
                 IN  2 * Abs(ey * dx - ex * dy)
                        <= Scale * (IF xMajor THEN Abs(dx) ELSE Abs(dy))

C2_Witness ==
    /\ DrawLineDone
    /\ op.args = <<0, 3 * Scale, Scale, 0>>
    /\ Len(plotted) = 4
    /\ plotted[1] = <<0, 3 * Scale>>
    /\ plotted[4] = <<Scale, 0>>

(* C3: DrawLines on a matrix of N columns makes max(0, N-1) DrawLine       *)
(* calls, the i-th from column i to column i+1 (stride 1), in increasing   *)
(* order; two AddEdge calls give three segments; 0 or 1 columns give no    *)
(* plot and no index error.                                                *)
C3_DrawLinesStrideOne ==
    op.name = "DrawLines"
    => LET N == Len(edges[1])
       IN  /\ Len(drawn) = Max(0, N - 1)
           /\ \A i \in 1 .. Len(drawn) :
                 drawn[i] = <<edges[1][i], edges[2][i], edges[1][i + 1], edges[2][i + 1]>>
           /\ (N <= 1 => plotted = <<>>)
           /\ (calls = <<"AddEdge", "AddEdge">> => Len(drawn) = 3)
           /\ ~panic

C3_Witness ==
    /\ op.name = "DrawLines"
    /\ calls = <<"AddEdge", "AddEdge">>
    /\ Len(drawn) = 3
    /\ drawn[2] = <<edges[1][2], edges[2][2], edges[1][3], edges[2][3]>>
    /\ drawn[2][1] # drawn[2][3]

(* The cells of the framebuffer that differ from the new framebuffer. *)
ChangedCells == {cell \in Rows \X Cols : screen[cell[1]][cell[2]] # NewScreen[cell[1]][cell[2]]}

RoundsInside(p) ==
    /\ 0 <= float64ToInt(p[1]) /\ float64ToInt(p[1]) < XRES
    /\ 0 <= float64ToInt(p[2]) /\ float64ToInt(p[2]) < YRES

(* C4: plot(screen, x, y) writes exactly the cell                          *)
(* screen[YRES - round(y) - 1][round(x)] when 0 <= round(x) < XRES and     *)
(* 0 <= round(y) < YRES, and otherwise writes nothing; it never indexes    *)
(* outside the framebuffer and never changes its dimensions; a DrawLine    *)
(* whose points all round outside the screen leaves it unchanged.          *)
C4_PlotClips ==
    pc = "done"
    => /\ ~panic
       /\ DOMAIN screen = Rows
       /\ \A r \in Rows : DOMAIN screen[r] = Cols
       /\ \A cell \in ChangedCells : screen[cell[1]][cell[2]] = DefaultDrawColor
       /\ (op.name = "plot" =>
             ChangedCells = IF RoundsInside(op.args)
                            THEN {<<YRES - float64ToInt(op.args[2]) - 1,
                                    float64ToInt(op.args[1])>>}
                            ELSE {})
       /\ (op.name = "DrawLine" /\ (\A i \in 1 .. Len(plotted) : ~RoundsInside(plotted[i]))
             => screen = NewScreen)

C4_Witness ==
    /\ pc = "done"
    /\ op = Call("plot", <<XRES * Scale, 0>>)
    /\ screen = NewScreen
    /\ ~panic

(* C5: float64ToInt(f) is the integer nearest to f, exact halves rounded   *)
(* up, for every f, positive or negative.                                  *)
C5_RoundsToNearest ==
    (pc = "done" /\ op.name = "float64ToInt") => ret = RoundHalfUp(op.args[1])

MatrixShape ==
    /\ \A r \in 1 .. 4 : Len(edges[r]) = Len(edges[1])
    /\ \A k \in 1 .. Len(edges[4]) : edges[4][k] = Scale

Column(m, k) == <<m[1][k], m[2][k], m[3][k], m[4][k]>>

MatrixGrowth ==
    LET N == Len(edges[1])
    IN  /\ \A r \in 1 .. 4 :
              /\ Len(edges'[r]) >= Len(edges[r])
              /\ SubSeq(edges'[r], 1, Len(edges[r])) = edges[r]
        /\ (op'.name = "AddPoint" =>
              /\ \A r \in 1 .. 4 : Len(edges'[r]) = Len(edges[r]) + 1
              /\ Column(edges', N + 1) = Append(op'.args, Scale))
        /\ (op'.name = "AddEdge" =>
              /\ \A r \in 1 .. 4 : Len(edges'[r]) = Len(edges[r]) + 2
              /\ Column(edges', N + 1) = Append(SubSeq(op'.args, 1, 3), Scale)
              /\ Column(edges', N + 2) = Append(SubSeq(op'.args, 4, 6), Scale))
        /\ (op'.name = "DrawLines" => edges' = edges)

(* C6: after any sequence of AddPoint, AddEdge, AddCircle and AddCurve     *)
(* calls the four rows have the same length and every w is 1; each call    *)
(* keeps the previous columns as a prefix, AddPoint adding the one column  *)
(* (x,y,z,1) and AddEdge the two columns (x0,y0,z0,1), (x1,y1,z1,1);       *)
(* DrawLines leaves the matrix unchanged.                                  *)
C6_MatrixGrowsByColumns == [](MatrixShape) /\ [][MatrixGrowth]_vars

C6_Witness ==
    /\ calls = <<"AddCircle", "AddEdge">>
    /\ op.name = "DrawLines"
    /\ Len(edges[1]) = 102
    /\ Len(edges[4]) = 102
    /\ edges[4][1] = Scale
    /\ edges[4][102] = Scale

(* C7: AddCurve with a curveType other than "hermite" and "bezier"         *)
(* appends nothing: the matrix is as before the call, for every control    *)
(* polygon and step, and the call returns normally.                        *)
C7_UnknownCurveTypeIsNoOp ==
    [][(op'.name = "AddCurve" /\ op'.kind \notin {"hermite", "bezier"})
          => (edges' = edges /\ ~panic')]_vars

C7_Witness ==
    /\ op.name = "AddCurve"
    /\ op.kind = "spline"
    /\ calls = <<"AddEdge", "AddCurve">>
    /\ Len(edges[1]) = 2

(* C8: AddCurve takes the coefficients of "hermite" from                   *)
(* matrix.MakeHermite and those of "bezier" from matrix.MakeBezier.        *)
C8_CurveUsesItsOwnBasis ==
    op.name = "AddCurve"
    => /\ (op.kind = "hermite" => coefGenerator = "MakeHermite")
       /\ (op.kind = "bezier" => coefGenerator = "MakeBezier")

(* C9: for a non-vertical segment, fractional endpoints included, the      *)
(* octant loop plots a point for every step of the major-axis coordinate   *)
(* from the start to the far endpoint; the minor-axis bound never cuts it  *)
(* short.                                                                  *)
C9_LoopRunsToFarEndpoint ==
    (DrawLineDone /\ op.args[1] # op.args[3])
    => LET dx == Abs(op.args[3] - op.args[1])
           dy == Abs(op.args[4] - op.args[2])
       IN  Len(plotted) = Max(dx, dy) \div Scale + 1

(* C10: every plotted cell keeps the color value that was current when it  *)
(* was last plotted (as changed since by writes to that same cell), and    *)
(* DefaultDrawColor keeps the value the configuration gave it, whatever    *)
(* in-place color updates and cell writes come in between.                 *)
C10_PlottedColorsKept ==
    /\ heap[DefaultDrawColor] = shadow.color
    /\ \A r \in Rows, c \in Cols :
          shadow.cells[r][c] # <<>> => heap[screen[r][c]] = shadow.cells[r][c]

====
